---------------------------- MODULE Spec2Model ----------------------------
(***************************************************************************)
(* Model of the Chemical JSON codec, avogadro/io/cjsonformat.cpp:          *)
(* CjsonFormat::read (decode a document into a Molecule) and               *)
(* CjsonFormat::write (encode a Molecule as a document).                   *)
(*                                                                         *)
(* Real numbers are fixed-point integers in units of 1/FX; a product or a  *)
(* quotient is truncated to the unit, which stands for the rounding of     *)
(* floating-point arithmetic.  Documents are trees of tagged JSON values.  *)
(***************************************************************************)
EXTENDS Integers, Sequences, FiniteSets, TLC

VARIABLES
  pc,       \* "start" | "read" | "written" | "reread"
  file,     \* the stream handed to read()
  mol,      \* the caller's Molecule
  errors,   \* the format's accumulated error log (appendError)
  ret,      \* what read() returned: "none" | "true" | "false"
  pre,      \* the Molecule and the log as they were when read() was called
  trace,    \* read()'s locals when it returned
  out,      \* the document write() produced
  wret,     \* what write() returned: "none" | "true"
  mol2,     \* a fresh Molecule that the written document is read into
  ret2,     \* what that second read() returned
  errors2   \* the log of that second read()

vars == <<pc, file, mol, errors, ret, pre, trace, out, wret, mol2, ret2, errors2>>

(***************************************************************************)
(* Bounds of the model.                                                    *)
(***************************************************************************)
MaxAtoms == 2      \* longest atoms.elements.number array of a document
MaxBonds == 2      \* most index pairs of a bonds.connections.index array
FX == 1000         \* fixed-point units per 1.0

(***************************************************************************)
(* JSON values (Json::Value).                                              *)
(***************************************************************************)
Null == [t |-> "null"]
Num(n) == [t |-> "number", n |-> n]
Str(s) == [t |-> "string", s |-> s]
Arr(a) == [t |-> "array", a |-> a]
Obj(m) == [t |-> "object", m |-> m]
EmptyObj == Obj(<< >>)

\* Value::operator[](key): the member, or null when there is none.
Get(v, key) == IF v.t = "object" /\ key \in DOMAIN v.m THEN v.m[key] ELSE Null

HasKey(v, key) == v.t = "object" /\ key \in DOMAIN v.m

\* Value::size(): elements of an array, members of an object, else 0.
size(v) ==
  CASE v.t = "array" -> Len(v.a)
    [] v.t = "object" -> Cardinality(DOMAIN v.m)
    [] OTHER -> 0

\* Value::empty(): a null, an array or an object of size 0.
empty(v) == v.t \in {"null", "array", "object"} /\ size(v) = 0

\* isArray() is taken as true of arrays only (releases of the library differ
\* on whether it is also true of null).
isArray(v) == v.t = "array"
isObjectValue(v) == v.t = "object"
isString(v) == v.t = "string"
isNumeric(v) == v.t = "number"

\* Value::get(index, default) followed by asInt()/asDouble().
get(v, i, default) ==
  IF v.t = "array" /\ i < Len(v.a) THEN v.a[i + 1] ELSE default

\* static_cast<unsigned char>(int)
toUChar(n) == n % 256

\* x * DEG_TO_RAD and x * RAD_TO_DEG, pi taken as 355/113.
DEG_TO_RAD(x) == (x * 71) \div 4068
RAD_TO_DEG(x) == (x * 4068) \div 71

(***************************************************************************)
(* Core::Molecule, Core::UnitCell and Core::CrystalTools.                  *)
(***************************************************************************)
NoCell == [set |-> FALSE, a |-> 0, b |-> 0, c |-> 0,
           alpha |-> 0, beta |-> 0, gamma |-> 0]
UnitCell(a, b, c, alpha, beta, gamma) ==
  [set |-> TRUE, a |-> a, b |-> b, c |-> c,
   alpha |-> alpha, beta |-> beta, gamma |-> gamma]

NoData == [set |-> FALSE, s |-> ""]
StringData(s) == [set |-> TRUE, s |-> s]

EmptyMolecule ==
  [atomicNumbers |-> << >>, positions3d |-> << >>, positions2d |-> << >>,
   bondPairs |-> << >>, bondOrders |-> << >>, unitCell |-> NoCell,
   name |-> NoData, inchi |-> NoData]

atomCount(m) == Len(m.atomicNumbers)
bondCount(m) == Len(m.bondPairs)

addAtom(m, z) == [m EXCEPT !.atomicNumbers = Append(@, z)]

\* Atom::setPosition3d / setPosition2d: the array grows to hold the index.
SetAt(positions, i, p, zero) ==
  LET n == IF Len(positions) > i THEN Len(positions) ELSE i + 1
  IN  [k \in 1..n |-> IF k = i + 1 THEN p
                      ELSE IF k <= Len(positions) THEN positions[k] ELSE zero]

setPosition3d(m, i, p) ==
  [m EXCEPT !.positions3d = SetAt(@, i, p, <<0, 0, 0>>)]
setPosition2d(m, i, p) ==
  [m EXCEPT !.positions2d = SetAt(@, i, p, <<0, 0>>)]

\* Molecule::addBond(a, b): a new bond of order 1.
addBond(m, i, j) ==
  [m EXCEPT !.bondPairs = Append(@, <<i, j>>), !.bondOrders = Append(@, 1)]

setOrder(m, i, o) == [m EXCEPT !.bondOrders[i + 1] = o]

setUnitCell(m, cell) == [m EXCEPT !.unitCell = cell]

\* UnitCell::toFractional / toCartesian for a cell with right angles.
toFractional(cell, p) ==
  <<(p[1] * FX) \div cell.a, (p[2] * FX) \div cell.b, (p[3] * FX) \div cell.c>>
toCartesian(cell, f) ==
  <<(f[1] * cell.a) \div FX, (f[2] * cell.b) \div FX, (f[3] * cell.c) \div FX>>

\* CrystalTools::fractionalCoordinates(cell, positions, fcoords)
fractionalCoordinates(cell, positions) ==
  [k \in 1..Len(positions) |-> toFractional(cell, positions[k])]

\* CrystalTools::setFractionalCoordinates(molecule, fcoords): nothing is set
\* unless there is one fractional coordinate per atom.
setFractionalCoordinates(m, fcoords) ==
  IF ~m.unitCell.set \/ atomCount(m) # Len(fcoords) THEN m
  ELSE [m EXCEPT !.positions3d =
          [k \in 1..Len(fcoords) |-> toCartesian(m.unitCell, fcoords[k])]]

(***************************************************************************)
(* The messages of read().                                                 *)
(***************************************************************************)
MsgParse == "Error parsing JSON: "
MsgNotObject == "Error: Input is not a JSON object."
MsgNoCjson == "Error: no \"chemical json\" key found."
MsgUnitCell == "Invalid unit cell specification: a, b, c, alpha, beta, gamma must be present and numeric."
MsgNoAtoms == "Error: no \"atom\" key found"
MsgAtomsType == "Error: \"atom\" is not of type object"
MsgNoElements == "Error: no \"atoms.elements\" key found"
MsgElementsType == "Error: \"atoms.elements\" is not of type object"
MsgNoNumber == "Error: no \"atoms.elements.number\" key found"
MsgNumberType == "Error: \"atoms.elements.number\" is not of type array"
Msg3d == "Error: number of elements != number of 3D coordinates."
Msg2d == "Error: number of elements != number of 2D coordinates."
MsgNoCell == "Cannot interpret fractional coordinates without unit cell."
MsgFractional == "Error: number of elements != number of fractional coordinates."
MsgNoConnections == "Error: no \"bonds.connections\" key found"
MsgWarnBonds == "Warning, no bonding information found."
MsgOrders == "Error: number of bonds != number of bond orders."

(***************************************************************************)
(* CjsonFormat::read.  A run of read() is a record: the molecule, the log, *)
(* the locals atomCount and bondCount, and ret, "run" until a return.      *)
(* molAtReturn is the molecule as it was at the return statement.          *)
(***************************************************************************)
Begin(m, log) ==
  [mol |-> m, errors |-> log, ret |-> "run", atomCount |-> 0, bondCount |-> 0,
   molAtReturn |-> m, fracSet |-> FALSE]

appendError(st, msg) == [st EXCEPT !.errors = Append(@, msg)]

ReturnFalse(st) == [st EXCEPT !.ret = "false", !.molAtReturn = st.mol]
ReturnTrue(st) == [st EXCEPT !.ret = "true", !.molAtReturn = st.mol]

\* Lines 57-68: the stream must parse, and to a JSON object.
ReadRoot(st, f) ==
  IF st.ret # "run" THEN st
  ELSE IF ~f.parses THEN ReturnFalse(appendError(st, MsgParse))
  ELSE IF ~isObjectValue(f.root) THEN ReturnFalse(appendError(st, MsgNotObject))
  ELSE st

\* ReadIdentity with the return after appendError forgotten.
ReadIdentityNoReturn(st, root) ==
  IF st.ret # "run" THEN st
  ELSE IF empty(Get(root, "chemical json")) THEN appendError(st, MsgNoCjson)
  ELSE st

\* Lines 70-74: the "chemical json" member must not be empty().
ReadIdentity(st, root) ==
  IF st.ret # "run" THEN st
  ELSE IF empty(Get(root, "chemical json"))
       THEN ReturnFalse(appendError(st, MsgNoCjson))
  ELSE st

\* Lines 77-82: name and inchi are taken when they are strings.
ReadData(st, root) ==
  IF st.ret # "run" THEN st
  ELSE LET name == Get(root, "name")
           inchi == Get(root, "inchi")
           m1 == IF ~empty(name) /\ isString(name)
                 THEN [st.mol EXCEPT !.name = StringData(name.s)] ELSE st.mol
           m2 == IF ~empty(inchi) /\ isString(inchi)
                 THEN [m1 EXCEPT !.inchi = StringData(inchi.s)] ELSE m1
       IN  [st EXCEPT !.mol = m2]

\* Lines 84-104: a "unit cell" of type object is validated and attached.
ReadUnitCell(st, root) ==
  IF st.ret # "run" THEN st
  ELSE LET value == Get(root, "unit cell")
       IN  IF value.t = "object"
           THEN IF \/ ~isNumeric(Get(value, "a"))
                   \/ ~isNumeric(Get(value, "b"))
                   \/ ~isNumeric(Get(value, "c"))
                   \/ ~isNumeric(Get(value, "alpha"))
                   \/ ~isNumeric(Get(value, "beta"))
                   \/ ~isNumeric(Get(value, "gamma"))
                THEN ReturnFalse(appendError(st, MsgUnitCell))
                ELSE [st EXCEPT !.mol = setUnitCell(@,
                        UnitCell(Get(value, "a").n, Get(value, "b").n,
                                 Get(value, "c").n,
                                 DEG_TO_RAD(Get(value, "alpha").n),
                                 DEG_TO_RAD(Get(value, "beta").n),
                                 DEG_TO_RAD(Get(value, "gamma").n)))]
           ELSE st

\* Lines 136-137: one atom per entry, the entry cast to unsigned char.
RECURSIVE AddAtoms(_, _, _, _)
AddAtoms(m, value, i, n) ==
  IF i >= n THEN m
  ELSE AddAtoms(addAtom(m, toUChar(get(value, i, 0))), value, i + 1, n)

\* Lines 107-142: atoms, atoms.elements, atoms.elements.number.
ReadAtoms(st, root) ==
  IF st.ret # "run" THEN st
  ELSE LET atoms == Get(root, "atoms")
           elements == Get(atoms, "elements")
           number == Get(elements, "number")
       IN  IF empty(atoms) THEN ReturnFalse(appendError(st, MsgNoAtoms))
           ELSE IF atoms.t # "object"
                THEN ReturnFalse(appendError(st, MsgAtomsType))
           ELSE IF empty(elements)
                THEN ReturnFalse(appendError(st, MsgNoElements))
           ELSE IF elements.t # "object"
                THEN ReturnFalse(appendError(st, MsgElementsType))
           ELSE IF empty(number)
                THEN ReturnFalse(appendError(st, MsgNoNumber))
           ELSE IF isArray(number)
                THEN [st EXCEPT !.atomCount = size(number),
                                !.mol = AddAtoms(@, number, 0, size(number))]
           ELSE ReturnFalse(appendError(st, MsgNumberType))

\* Lines 152-157: atom(i).setPosition3d for i < atomCount.
RECURSIVE SetPositions3d(_, _, _, _)
SetPositions3d(m, value, i, n) ==
  IF i >= n THEN m
  ELSE SetPositions3d(
         setPosition3d(m, i, <<get(value, 3 * i + 0, 0),
                               get(value, 3 * i + 1, 0),
                               get(value, 3 * i + 2, 0)>>),
         value, i + 1, n)

\* Lines 146-158: atoms.coords.3d.
ReadCoords3d(st, coords) ==
  IF st.ret # "run" THEN st
  ELSE LET value == Get(coords, "3d")
       IN  IF isArray(value)
           THEN IF size(value) # 0 /\ st.atomCount # size(value) \div 3
                THEN ReturnFalse(appendError(st, Msg3d))
                ELSE [st EXCEPT !.mol = SetPositions3d(@, value, 0, st.atomCount)]
           ELSE st

\* Lines 166-170: atom(i).setPosition2d for i < atomCount.
RECURSIVE SetPositions2d(_, _, _, _)
SetPositions2d(m, value, i, n) ==
  IF i >= n THEN m
  ELSE SetPositions2d(
         setPosition2d(m, i, <<get(value, 2 * i + 0, 0),
                               get(value, 2 * i + 1, 0)>>),
         value, i + 1, n)

\* Lines 160-171: atoms.coords.2d.
ReadCoords2d(st, coords) ==
  IF st.ret # "run" THEN st
  ELSE LET value == Get(coords, "2d")
       IN  IF isArray(value)
           THEN IF size(value) # 0 /\ st.atomCount # size(value) \div 2
                THEN ReturnFalse(appendError(st, Msg2d))
                ELSE [st EXCEPT !.mol = SetPositions2d(@, value, 0, st.atomCount)]
           ELSE st

\* ReadFractional without the test of molecule.unitCell().
ReadFractionalUnchecked(st, coords) ==
  IF st.ret # "run" THEN st
  ELSE LET value == Get(coords, "3d fractional")
           fcoords == [k \in 1..st.atomCount |->
                         <<get(value, (k - 1) * 3 + 0, 0),
                           get(value, (k - 1) * 3 + 1, 0),
                           get(value, (k - 1) * 3 + 2, 0)>>]
       IN  IF value.t = "array"
           THEN IF size(value) # 0 /\ st.atomCount # size(value) \div 3
                THEN ReturnFalse(appendError(st, MsgFractional))
                ELSE [st EXCEPT !.mol = setFractionalCoordinates(@, fcoords),
                                !.fracSet = TRUE]
           ELSE st

\* Lines 173-194: atoms.coords."3d fractional".
ReadFractional(st, coords) ==
  IF st.ret # "run" THEN st
  ELSE LET value == Get(coords, "3d fractional")
           fcoords == [k \in 1..st.atomCount |->
                         <<get(value, (k - 1) * 3 + 0, 0),
                           get(value, (k - 1) * 3 + 1, 0),
                           get(value, (k - 1) * 3 + 2, 0)>>]
       IN  IF value.t = "array"
           THEN IF ~st.mol.unitCell.set
                THEN ReturnFalse(appendError(st, MsgNoCell))
                ELSE IF size(value) # 0 /\ st.atomCount # size(value) \div 3
                THEN ReturnFalse(appendError(st, MsgFractional))
                ELSE [st EXCEPT !.mol = setFractionalCoordinates(@, fcoords),
                                !.fracSet = TRUE]
           ELSE st

\* Lines 144-195: atoms.coords, when it is not empty().
ReadCoords(st, root) ==
  IF st.ret # "run" THEN st
  ELSE LET coords == Get(Get(root, "atoms"), "coords")
       IN  IF ~empty(coords)
           THEN ReadFractional(ReadCoords2d(ReadCoords3d(st, coords), coords),
                               coords)
           ELSE st

\* Lines 210-214: one bond per pair of indices.
RECURSIVE AddBonds(_, _, _, _)
AddBonds(m, value, i, n) ==
  IF i >= n THEN m
  ELSE AddBonds(addBond(m, get(value, i + 0, 0), get(value, i + 1, 0)),
                value, i + 2, n)

\* Lines 226-228: bond(i).setOrder for i < bondCount.
RECURSIVE SetOrders(_, _, _, _)
SetOrders(m, value, i, n) ==
  IF i >= n THEN m
  ELSE SetOrders(setOrder(m, i, toUChar(get(value, i, 1))), value, i + 1, n)

\* Lines 206-218: bonds.connections.index.
ReadBondIndex(st, connections) ==
  LET value == Get(connections, "index")
  IN  IF isArray(value)
      THEN [st EXCEPT !.bondCount = size(value) \div 2,
                      !.mol = AddBonds(@, value, 0, (size(value) \div 2) * 2)]
      ELSE appendError(st, MsgWarnBonds)

\* Lines 220-229: bonds.order.
ReadBondOrder(st, bonds) ==
  IF st.ret # "run" THEN st
  ELSE LET value == Get(bonds, "order")
       IN  IF isArray(value)
           THEN IF st.bondCount # size(value)
                THEN ReturnFalse(appendError(st, MsgOrders))
                ELSE [st EXCEPT !.mol = SetOrders(@, value, 0, st.bondCount)]
           ELSE st

\* Lines 198-230: bonds, when it is not empty().
ReadBonds(st, root) ==
  IF st.ret # "run" THEN st
  ELSE LET bonds == Get(root, "bonds")
           connections == Get(bonds, "connections")
       IN  IF ~empty(bonds)
           THEN IF empty(connections)
                THEN ReturnFalse(appendError(st, MsgNoConnections))
                ELSE ReadBondOrder(ReadBondIndex(st, connections), bonds)
           ELSE st

\* Line 232.
ReadEnd(st) == IF st.ret # "run" THEN st ELSE ReturnTrue(st)

\* CjsonFormat::read(file, molecule)
read(f, m, log) ==
  LET s1 == ReadRoot(Begin(m, log), f)
      s2 == ReadIdentity(s1, f.root)
      s3 == ReadData(s2, f.root)
      s4 == ReadUnitCell(s3, f.root)
      s5 == ReadAtoms(s4, f.root)
      s6 == ReadCoords(s5, f.root)
      s7 == ReadBonds(s6, f.root)
  IN  ReadEnd(s7)

(***************************************************************************)
(* CjsonFormat::write.                                                     *)
(***************************************************************************)
\* Lines 240-245: the identity marker, name and inchi.
WriteData(m) ==
  ("chemical json" :> Num(0))
  @@ (IF m.name.set THEN "name" :> Str(m.name.s) ELSE << >>)
  @@ (IF m.inchi.set THEN "inchi" :> Str(m.inchi.s) ELSE << >>)

\* WriteUnitCell with the angles left in radians.
WriteUnitCellRadians(m) ==
  IF m.unitCell.set
  THEN "unit cell" :> Obj([a |-> Num(m.unitCell.a),
                           b |-> Num(m.unitCell.b),
                           c |-> Num(m.unitCell.c),
                           alpha |-> Num(m.unitCell.alpha),
                           beta |-> Num(m.unitCell.beta),
                           gamma |-> Num(m.unitCell.gamma)])
  ELSE << >>

\* Lines 247-256: the unit cell, its angles in degrees.
WriteUnitCell(m) ==
  IF m.unitCell.set
  THEN "unit cell" :> Obj([a |-> Num(m.unitCell.a),
                           b |-> Num(m.unitCell.b),
                           c |-> Num(m.unitCell.c),
                           alpha |-> Num(RAD_TO_DEG(m.unitCell.alpha)),
                           beta |-> Num(RAD_TO_DEG(m.unitCell.beta)),
                           gamma |-> Num(RAD_TO_DEG(m.unitCell.gamma))])
  ELSE << >>

\* Flattening of an array of vectors of dimension dim.
Flatten(vectors, dim) ==
  [j \in 1..(dim * Len(vectors)) |->
     vectors[((j - 1) \div dim) + 1][((j - 1) % dim) + 1]]

\* WriteCoords3d writing the Cartesian positions beside the fractional ones.
WriteCoords3dBoth(m) ==
  IF Len(m.positions3d) = atomCount(m)
  THEN (IF m.unitCell.set
        THEN "3d fractional" :>
               Arr(Flatten(fractionalCoordinates(m.unitCell, m.positions3d), 3))
        ELSE << >>)
       @@ ("3d" :> Arr(Flatten(m.positions3d, 3)))
  ELSE << >>

\* Lines 291-318: the 3d positions, fractional when there is a unit cell.
WriteCoords3d(m) ==
  IF Len(m.positions3d) = atomCount(m)
  THEN IF m.unitCell.set
       THEN "3d fractional" :>
              Arr(Flatten(fractionalCoordinates(m.unitCell, m.positions3d), 3))
       ELSE "3d" :> Arr(Flatten(m.positions3d, 3))
  ELSE << >>

\* Lines 320-330: the 2d positions.
WriteCoords2d(m) ==
  IF Len(m.positions2d) = atomCount(m)
  THEN "2d" :> Arr(Flatten(m.positions2d, 2))
  ELSE << >>

\* Lines 284-331: the atoms, when there is one.
WriteAtoms(m) ==
  IF atomCount(m) # 0
  THEN LET coords == WriteCoords3d(m) @@ WriteCoords2d(m)
       IN  "atoms" :> Obj(("elements" :> Obj("number" :> Arr(m.atomicNumbers)))
                          @@ (IF DOMAIN coords # {}
                              THEN "coords" :> Obj(coords) ELSE << >>))
  ELSE << >>

\* Lines 333-345: the bonds, when there is one.
WriteBonds(m) ==
  IF bondCount(m) # 0
  THEN "bonds" :> Obj(("connections" :> Obj("index" :> Arr(Flatten(m.bondPairs, 2))))
                      @@ ("order" :> Arr(m.bondOrders)))
  ELSE << >>

\* CjsonFormat::write(file, molecule): the stream written and the return.
write(m) ==
  [file |-> [parses |-> TRUE,
             root |-> Obj(WriteData(m) @@ WriteUnitCell(m) @@ WriteAtoms(m)
                          @@ WriteBonds(m))],
   ret |-> "true"]

(***************************************************************************)
(* The documents and the molecules the model starts from.  Arrays hold     *)
(* numbers; atoms.coords, bonds and bonds.connections are null, empty or  *)
(* objects, and the indices of bonds.connections.index are those of atoms  *)
(* of the molecule: on other values Value::operator[], asInt() and         *)
(* Molecule::atom() assert, which read() does not handle.                  *)
(***************************************************************************)
Absent == [t |-> "absent"]

\* An object's member, left out when its value is Absent.
Member(key, v) == IF v.t = "absent" THEN << >> ELSE key :> v

Stream(root) == [parses |-> TRUE, root |-> root]
Unparsable == [parses |-> FALSE, root |-> Null]

\* An array of length L whose j-th element is step * j.
CoordArr(L, step) == Arr([j \in 1..L |-> step * j])

\* n atomic numbers; 262 is 6 once cast to unsigned char.
NumberSeqs == UNION {[1..n -> {1, 262}] : n \in 0..MaxAtoms}
Hydrogens(n) == Arr([j \in 1..n |-> 1])

CoordsValue(c3, c2, cf) ==
  IF c3.t = "absent" /\ c2.t = "absent" /\ cf.t = "absent" THEN Absent
  ELSE Obj(Member("3d", c3) @@ Member("2d", c2) @@ Member("3d fractional", cf))

AtomsValue(number, coords) ==
  Obj(("elements" :> Obj(Member("number", number))) @@ Member("coords", coords))

Document(cj, name, inchi, cell, atoms, bonds) ==
  Stream(Obj(Member("chemical json", cj) @@ Member("name", name)
             @@ Member("inchi", inchi) @@ Member("unit cell", cell)
             @@ Member("atoms", atoms) @@ Member("bonds", bonds)))

CellValue(a, b, c, alpha, beta, gamma) ==
  Obj(Member("a", a) @@ Member("b", b) @@ Member("c", c)
      @@ Member("alpha", alpha) @@ Member("beta", beta) @@ Member("gamma", gamma))

Deg90 == Num(90 * FX)
GoodCell == CellValue(Num(2 * FX), Num(3 * FX), Num(4 * FX), Deg90, Deg90, Deg90)

CjValues ==
  {Absent, Null, Num(0), Num(1), Str("1.0"), Str(""), Arr(<< >>), Arr(<<1>>),
   EmptyObj, Obj("version" :> Num(1))}

AtomsValues ==
  {Absent, Null, Num(1), Arr(<<1>>), EmptyObj,
   Obj("elements" :> Null), Obj("elements" :> Num(1)),
   Obj("elements" :> EmptyObj), Obj("elements" :> Arr(<<1>>)),
   Obj("elements" :> Obj("number" :> Null)),
   Obj("elements" :> Obj("number" :> Num(1))),
   Obj("elements" :> Obj("symbol" :> Str("H"))),
   AtomsValue(Hydrogens(1), CoordsValue(CoordArr(3, 100), Absent, Absent))}

NameValues == {Absent, Null, Num(7), Str(""), Str("water")}
InchiValues == {Absent, Str("InChI=1S/H2O/h1H2")}

CellValues ==
  {Absent, Null, Num(1), Str("cubic"), Arr(<<1>>), EmptyObj, GoodCell,
   CellValue(Num(2 * FX), Num(3 * FX), Num(4 * FX), Deg90, Deg90, Absent),
   CellValue(Num(2 * FX), Num(3 * FX), Num(4 * FX), Str("90"), Deg90, Deg90),
   CellValue(Null, Num(3 * FX), Num(4 * FX), Deg90, Deg90, Deg90)}

Coords3dValues ==
  {Absent, Null, Str("0 0 0")} \cup {CoordArr(L, 100) : L \in 0..(3 * MaxAtoms + 2)}
Coords2dValues ==
  {Absent} \cup {CoordArr(L, 10) : L \in 0..(2 * MaxAtoms + 1)}
FractionalValues ==
  {Absent, Str("0 0 0")} \cup {CoordArr(L, 50) : L \in 0..(3 * MaxAtoms + 2)}

\* Bonds between the first two atoms: index pairs 0 1, 0 1, ...
IndexArr(L) == Arr([j \in 1..L |-> (j - 1) % 2])
ConnectionsValues ==
  {Absent, Null, EmptyObj, Arr(<< >>), Obj("extra" :> Num(1)),
   Obj("index" :> Null), Obj("index" :> Num(3)), Obj("index" :> Str("0 1"))}
  \cup {Obj("index" :> IndexArr(L)) : L \in 0..(2 * MaxBonds + 1)}
\* 259 is 3 once cast to unsigned char.
OrderValues ==
  {Absent, Null, Num(2)}
  \cup {Arr(s) : s \in UNION {[1..n -> {2, 259}] : n \in 0..(MaxBonds + 1)}}
BondsValues ==
  {Absent, Null, EmptyObj, Arr(<< >>)}
  \cup {Obj(Member("connections", c) @@ Member("order", o)) :
          c \in ConnectionsValues, o \in OrderValues}

RightCell == UnitCell(2 * FX, 3 * FX, 4 * FX,
                      DEG_TO_RAD(90 * FX), DEG_TO_RAD(90 * FX), DEG_TO_RAD(90 * FX))

BareAtom == [EmptyMolecule EXCEPT !.atomicNumbers = <<8>>]
PlacedAtom ==
  [EmptyMolecule EXCEPT !.atomicNumbers = <<8>>,
                        !.positions3d = << <<500, 600, 700>> >>,
                        !.positions2d = << <<55, 65>> >>]
BondedPair ==
  [EmptyMolecule EXCEPT !.atomicNumbers = <<6, 8>>,
                        !.positions3d = << <<0, 0, 0>>, <<1200, 0, 0>> >>,
                        !.bondPairs = << <<0, 1>> >>, !.bondOrders = <<2>>,
                        !.name = StringData("CO")]
EmptyCrystal == [EmptyMolecule EXCEPT !.unitCell = RightCell]
Crystal == [PlacedAtom EXCEPT !.unitCell = RightCell]
FlatPair ==
  [EmptyMolecule EXCEPT !.atomicNumbers = <<1, 1>>,
                        !.positions2d = << <<0, 0>>, <<70, 0>> >>,
                        !.inchi = StringData("InChI=1S/H2/h1H")]

Molecules ==
  {EmptyMolecule, BareAtom, PlacedAtom, BondedPair, EmptyCrystal, Crystal, FlatPair}

Logs == {<< >>, <<"earlier message">>}

Scenario(f, m, log) == [file |-> f, mol |-> m, errors |-> log]

\* Identity marker, metadata and the structure of atoms.
StructureScenarios ==
  {Scenario(f, t[1], t[2]) :
     f \in {Unparsable, Stream(Null), Stream(Arr(<< >>)), Stream(Num(1))}
           \cup {Document(cj, name, inchi, Absent, atoms, Absent) :
                   cj \in CjValues, name \in NameValues, inchi \in InchiValues,
                   atoms \in AtomsValues},
     t \in {<<EmptyMolecule, << >>>>, <<BondedPair, <<"earlier message">>>>}}

\* Unit cell and fractional coordinates.
CellScenarios ==
  {Scenario(Document(Num(0), Absent, Absent, cell,
                     AtomsValue(Hydrogens(n),
                                CoordsValue(IF with3d THEN CoordArr(3 * n, 100)
                                            ELSE Absent, Absent, cf)),
                     Absent),
            m, << >>) :
     cell \in CellValues, n \in 1..MaxAtoms, cf \in FractionalValues,
     with3d \in BOOLEAN,
     m \in {EmptyMolecule, EmptyCrystal, BareAtom, Crystal}}

\* Atomic numbers and Cartesian coordinates.
CoordsScenarios ==
  {Scenario(Document(Num(0), Absent, Absent, Absent,
                     AtomsValue(Arr(number), coords), Absent), m, << >>) :
     number \in NumberSeqs,
     coords \in {Null, EmptyObj, Obj("extra" :> Num(1))}
                \cup {CoordsValue(c3, c2, Absent) :
                        c3 \in Coords3dValues, c2 \in Coords2dValues},
     m \in {EmptyMolecule, PlacedAtom}}

\* Bonds.
BondsScenarios ==
  {Scenario(Document(Num(0), Absent, Absent, Absent,
                     AtomsValue(Hydrogens(2), Absent), bonds), m, log) :
     bonds \in BondsValues, m \in {EmptyMolecule, BondedPair, Crystal},
     log \in Logs}

\* Molecules to encode as they are.
MoleculeScenarios ==
  {Scenario(Unparsable, m, << >>) : m \in Molecules}

Scenarios ==
  StructureScenarios \cup CellScenarios \cup CoordsScenarios
  \cup BondsScenarios \cup MoleculeScenarios

(***************************************************************************)
(* The state machine: read() into the caller's molecule, write() of the    *)
(* molecule, and read() of what was written into a fresh molecule.         *)
(***************************************************************************)
NoTrace == [atomCount |-> 0, bondCount |-> 0, molAtReturn |-> EmptyMolecule,
            fracSet |-> FALSE]

Init ==
  \E sc \in Scenarios :
    /\ pc = "start"
    /\ file = sc.file
    /\ mol = sc.mol
    /\ errors = sc.errors
    /\ ret = "none"
    /\ pre = [mol |-> sc.mol, errors |-> sc.errors]
    /\ trace = NoTrace
    /\ out = Unparsable
    /\ wret = "none"
    /\ mol2 = EmptyMolecule
    /\ ret2 = "none"
    /\ errors2 = << >>

Read ==
  /\ pc = "start"
  /\ LET r == read(file, mol, errors)
     IN  /\ mol' = r.mol
         /\ errors' = r.errors
         /\ ret' = r.ret
         /\ trace' = [atomCount |-> r.atomCount, bondCount |-> r.bondCount,
                      molAtReturn |-> r.molAtReturn, fracSet |-> r.fracSet]
  /\ pre' = [mol |-> mol, errors |-> errors]
  /\ pc' = "read"
  /\ UNCHANGED <<file, out, wret, mol2, ret2, errors2>>

Write ==
  /\ pc \in {"start", "read"}
  /\ LET w == write(mol)
     IN  /\ out' = w.file
         /\ wret' = w.ret
  /\ pc' = "written"
  /\ UNCHANGED <<file, mol, errors, ret, pre, trace, mol2, ret2, errors2>>

Reread ==
  /\ pc = "written"
  /\ LET r == read(out, EmptyMolecule, << >>)
     IN  /\ mol2' = r.mol
         /\ ret2' = r.ret
         /\ errors2' = r.errors
  /\ pc' = "reread"
  /\ UNCHANGED <<file, mol, errors, ret, pre, trace, out, wret>>

Next == Read \/ Write \/ Reread

Spec == Init /\ [][Next]_vars

(***************************************************************************)
(* Vocabulary of the properties.                                           *)
(***************************************************************************)
Root == file.root
DocCj == Get(Root, "chemical json")
DocCell == Get(Root, "unit cell")
DocAtoms == Get(Root, "atoms")
DocNumber == Get(Get(DocAtoms, "elements"), "number")
DocCoords == Get(DocAtoms, "coords")
Doc3d == Get(DocCoords, "3d")
Doc2d == Get(DocCoords, "2d")
DocFractional == Get(DocCoords, "3d fractional")
DocBonds == Get(Root, "bonds")
DocConnections == Get(DocBonds, "connections")
DocIndex == Get(DocConnections, "index")
DocOrder == Get(DocBonds, "order")

\* read() was called on the caller's molecule and has returned.
Decoded == ret # "none"

\* The messages this call of read() appended.
Appended == SubSeq(errors, Len(pre.errors) + 1, Len(errors))

FatalMessages ==
  {MsgParse, MsgNotObject, MsgNoCjson, MsgUnitCell, MsgNoAtoms, MsgAtomsType,
   MsgNoElements, MsgElementsType, MsgNoNumber, MsgNumberType, Msg3d, Msg2d,
   MsgNoCell, MsgFractional, MsgNoConnections, MsgOrders}

Last(s) == s[Len(s)]

Abs(x) == IF x < 0 THEN -x ELSE x
Close(x, y, tol) == Abs(x - y) <= tol

\* A position that went through toFractional and toCartesian is off by less
\* than one unit of the fraction times the cell's length.
PositionTolerance(cell) ==
  IF cell.set
  THEN (IF cell.a > cell.c THEN cell.a ELSE cell.c) \div FX + 1
  ELSE 0
\* An angle that went through RAD_TO_DEG and DEG_TO_RAD is off by at most
\* one unit.
SameAngle(x, y) == Close(x, y, 1)

SameCell(c1, c2) ==
  /\ c1.set = c2.set
  /\ c1.a = c2.a /\ c1.b = c2.b /\ c1.c = c2.c
  /\ SameAngle(c1.alpha, c2.alpha)
  /\ SameAngle(c1.beta, c2.beta)
  /\ SameAngle(c1.gamma, c2.gamma)

\* Equal atoms, positions (3D within the tolerance of the fractional
\* transform), bonds, unit cell and metadata.
SameModel(m1, m2) ==
  /\ m1.atomicNumbers = m2.atomicNumbers
  /\ Len(m1.positions3d) = Len(m2.positions3d)
  /\ \A k \in 1..Len(m1.positions3d) : \A d \in 1..3 :
       Close(m1.positions3d[k][d], m2.positions3d[k][d],
             PositionTolerance(m2.unitCell))
  /\ m1.positions2d = m2.positions2d
  /\ m1.bondPairs = m2.bondPairs
  /\ m1.bondOrders = m2.bondOrders
  /\ SameCell(m1.unitCell, m2.unitCell)
  /\ m1.name = m2.name
  /\ m1.inchi = m2.inchi

(***************************************************************************)
(* C1.  Round trip: when read() accepts a document into a fresh empty      *)
(* molecule, writing that molecule and reading what was written into       *)
(* another fresh empty molecule succeeds and gives the same atoms,         *)
(* positions, bonds, unit cell and name/inchi.                             *)
(***************************************************************************)
RoundTrip ==
  (pc = "reread" /\ ret = "true" /\ pre.mol = EmptyMolecule)
    => (wret = "true" /\ ret2 = "true" /\ SameModel(mol2, mol))

RoundTripWitness ==
  /\ pc = "reread" /\ ret = "true" /\ pre.mol = EmptyMolecule
  /\ mol.unitCell.set /\ atomCount(mol) = 2 /\ Len(mol.positions3d) = 2
  /\ mol.positions3d[2] # <<0, 0, 0>>
  /\ ret2 = "true" /\ atomCount(mol2) = 2

(***************************************************************************)
(* C2.  Every well-formed molecule (positions for all atoms or for none),  *)
(* one with zero atoms included, is written with success to a document     *)
(* that read() accepts with no message into a fresh molecule, which then   *)
(* has the same atoms, bonds, unit cell and name/inchi.                    *)
(***************************************************************************)
WellFormed(m) ==
  /\ Len(m.positions3d) \in {0, atomCount(m)}
  /\ Len(m.positions2d) \in {0, atomCount(m)}
  /\ \A k \in 1..bondCount(m) :
       m.bondPairs[k][1] < atomCount(m) /\ m.bondPairs[k][2] < atomCount(m)

EncodedIsAccepted ==
  (pc = "reread" /\ WellFormed(mol))
    => (wret = "true" /\ ret2 = "true" /\ errors2 = << >> /\ SameModel(mol2, mol))

(***************************************************************************)
(* C3.  Coordinate cardinality: with N the length of                       *)
(* atoms.elements.number, a coordinate array of non-zero length other than *)
(* dim * N makes read() return false and set no position of that           *)
(* dimensionality.                                                         *)
(***************************************************************************)
BadLength(v, dim) ==
  isArray(v) /\ size(v) # 0 /\ size(v) # dim * size(DocNumber)

CoordinateCardinality ==
  (Decoded /\ isArray(DocNumber))
    => /\ BadLength(Doc3d, 3)
            => (ret = "false" /\ mol.positions3d = pre.mol.positions3d)
       /\ BadLength(Doc2d, 2)
            => (ret = "false" /\ mol.positions2d = pre.mol.positions2d)
       /\ BadLength(DocFractional, 3)
            => (ret = "false" /\ ~trace.fracSet)

(***************************************************************************)
(* C4.  Identity check: for a root that is a JSON object, read() fails     *)
(* with the 'no "chemical json" key' message if and only if the object has *)
(* no "chemical json" key, whatever the value of a key that is there.      *)
(***************************************************************************)
IdentityCheck ==
  (Decoded /\ file.parses /\ isObjectValue(Root))
    => ((ret = "false" /\ Last(errors) = MsgNoCjson)
          <=> ~HasKey(Root, "chemical json"))

(***************************************************************************)
(* C5.  Fractional coordinates without a cell.  As claimed: whatever the   *)
(* target molecule, a document with an array at atoms.coords."3d           *)
(* fractional" and no "unit cell" object makes read() return false, and    *)
(* no position is set from the fractional array.                           *)
(***************************************************************************)
FractionalWithoutCellObject ==
  /\ Decoded /\ file.parses
  /\ isArray(DocFractional)
  /\ ~isObjectValue(DocCell)

FractionalNeedsDocumentCell ==
  FractionalWithoutCellObject => (ret = "false" /\ ~trace.fracSet)

(***************************************************************************)
(* C5, amended.  The same for a target molecule that has no unit cell      *)
(* attached when read() is called.                                         *)
(***************************************************************************)
FractionalNeedsAttachedCell ==
  (FractionalWithoutCellObject /\ ~pre.mol.unitCell.set)
    => (ret = "false" /\ ~trace.fracSet)

FractionalRefused ==
  /\ FractionalWithoutCellObject /\ ~pre.mol.unitCell.set
  /\ size(DocFractional) = 3 * size(DocNumber)
  /\ atomCount(pre.mol) = 1
  /\ ret = "false" /\ Last(errors) = MsgNoCell
  /\ mol.positions3d = pre.mol.positions3d

(***************************************************************************)
(* C6.  Fatal-error signalling: read() returns false exactly when it       *)
(* appended a fatal message; it then appended exactly one, as the last     *)
(* entry of the log, and the molecule is as it was when the message was    *)
(* appended; the earlier entries of the log are unchanged; a call that     *)
(* returns true appended warnings only.                                    *)
(***************************************************************************)
FatalCount(log) == Cardinality({k \in 1..Len(log) : log[k] \in FatalMessages})

FatalSignalling ==
  Decoded
    => /\ ret \in {"true", "false"}
       /\ Len(errors) >= Len(pre.errors)
       /\ SubSeq(errors, 1, Len(pre.errors)) = pre.errors
       /\ (ret = "false") <=> (FatalCount(Appended) > 0)
       /\ ret = "false"
            => /\ FatalCount(Appended) = 1
               /\ Last(errors) \in FatalMessages
               /\ mol = trace.molAtReturn
       /\ ret = "true"
            => \A k \in 1..Len(Appended) : Appended[k] = MsgWarnBonds

FatalAfterWarning ==
  /\ Decoded /\ ret = "false"
  /\ pre.errors # << >>
  /\ Appended = <<MsgWarnBonds, MsgOrders>>
  /\ atomCount(mol) = atomCount(pre.mol) + 2

(***************************************************************************)
(* C7.  Soft bonding warning: when the document has a "bonds" key with a   *)
(* "connections" object under it whose index is not an array (absent, a    *)
(* scalar, or the object empty),                                           *)
(* read() records the warning, adds no bond and does not fail for want of  *)
(* connections; and with no "bonds" key it adds no bond and no message.    *)
(***************************************************************************)
\* read() got as far as the bonds.
ReachedBonds ==
  Decoded /\ (ret = "true" \/ Last(errors) \in {MsgNoConnections, MsgOrders})

SoftBondWarning ==
  /\ (ReachedBonds /\ HasKey(Root, "bonds") /\ HasKey(DocBonds, "connections")
        /\ isObjectValue(DocConnections) /\ ~isArray(DocIndex))
       => /\ \E k \in 1..Len(Appended) : Appended[k] = MsgWarnBonds
          /\ bondCount(mol) = bondCount(pre.mol)
          /\ ~(ret = "false" /\ Last(errors) = MsgNoConnections)
  /\ (ReachedBonds /\ ~HasKey(Root, "bonds"))
       => (ret = "true" /\ bondCount(mol) = bondCount(pre.mol)
           /\ Appended = << >>)

(***************************************************************************)
(* C8.  Unit-cell validation: when the document has a "unit cell" key (of  *)
(* a value other than null),                                               *)
(* read() succeeds only if its value is an object with numeric a, b, c,    *)
(* alpha, beta, gamma, and a cell of those lengths and of those angles in  *)
(* radians is then attached; any other value makes read() return false     *)
(* and attaches no unit cell.                                              *)
(***************************************************************************)
NumericCell(v) ==
  /\ isObjectValue(v)
  /\ \A k \in {"a", "b", "c", "alpha", "beta", "gamma"} : isNumeric(Get(v, k))

UnitCellValidation ==
  (Decoded /\ file.parses /\ isObjectValue(Root) /\ ~empty(DocCj)
     /\ HasKey(Root, "unit cell") /\ DocCell.t # "null")
    => /\ ret = "true" => NumericCell(DocCell)
       /\ NumericCell(DocCell)
            => mol.unitCell = UnitCell(Get(DocCell, "a").n, Get(DocCell, "b").n,
                                       Get(DocCell, "c").n,
                                       DEG_TO_RAD(Get(DocCell, "alpha").n),
                                       DEG_TO_RAD(Get(DocCell, "beta").n),
                                       DEG_TO_RAD(Get(DocCell, "gamma").n))
       /\ ~NumericCell(DocCell)
            => (ret = "false" /\ mol.unitCell = pre.mol.unitCell)

(***************************************************************************)
(* C9.  Encoder coordinate exclusivity.  As claimed: the written document  *)
(* never holds both "3d" and "3d fractional"; it holds "3d fractional"     *)
(* exactly when the molecule has an atom, a 3D position for every atom and *)
(* a unit cell, "3d" exactly when it has an atom, a 3D position for every  *)
(* atom and no unit cell, and "2d" exactly when every atom has a 2D        *)
(* position; and write() leaves the molecule unchanged.                    *)
(***************************************************************************)
OutCoords == Get(Get(out.root, "atoms"), "coords")
All3d(m) == Len(m.positions3d) = atomCount(m)
All2d(m) == Len(m.positions2d) = atomCount(m)

Exclusive3d ==
  /\ ~(HasKey(OutCoords, "3d") /\ HasKey(OutCoords, "3d fractional"))
  /\ HasKey(OutCoords, "3d fractional")
       <=> (atomCount(mol) >= 1 /\ All3d(mol) /\ mol.unitCell.set)
  /\ HasKey(OutCoords, "3d")
       <=> (atomCount(mol) >= 1 /\ All3d(mol) /\ ~mol.unitCell.set)

EncoderCoordinatesAsClaimed ==
  /\ [](wret = "true" => (Exclusive3d /\ (HasKey(OutCoords, "2d") <=> All2d(mol))))
  /\ [][pc' = "written" => mol' = mol]_vars

(***************************************************************************)
(* C9, amended.  The same, "2d" being held exactly when the molecule has   *)
(* an atom and every atom has a 2D position.                               *)
(***************************************************************************)
EncoderCoordinates ==
  /\ [](wret = "true"
          => (Exclusive3d /\ (HasKey(OutCoords, "2d")
                                <=> (atomCount(mol) >= 1 /\ All2d(mol)))))
  /\ [][pc' = "written" => mol' = mol]_vars

EncodedCrystal ==
  /\ wret = "true" /\ pc = "written"
  /\ mol.unitCell.set /\ atomCount(mol) = 2 /\ All3d(mol) /\ ~All2d(mol)
  /\ HasKey(OutCoords, "3d fractional")
  /\ ~HasKey(OutCoords, "3d") /\ ~HasKey(OutCoords, "2d")

(***************************************************************************)
(* C10.  Decoding into an existing molecule of K atoms and B bonds: a      *)
(* read() that returns true has appended the N atoms of the document in    *)
(* order, each atomic number cast to 8 bits, has set the position of the   *)
(* atom appended for entry i from the coordinates of entry i, has applied  *)
(* bonds.order[j] to the j-th bond it appended, and has left the atomic    *)
(* numbers, positions and bond orders that were there unchanged.           *)
(***************************************************************************)
AppendsToExisting ==
  (Decoded /\ ret = "true")
    => LET K == atomCount(pre.mol)
           B == bondCount(pre.mol)
           N == size(DocNumber)
           M == size(DocIndex) \div 2
       IN  /\ atomCount(mol) = K + N
           /\ \A i \in 1..N : mol.atomicNumbers[K + i] = toUChar(DocNumber.a[i])
           /\ \A i \in 1..K : mol.atomicNumbers[i] = pre.mol.atomicNumbers[i]
           /\ (isArray(Doc3d) /\ size(Doc3d) = 3 * N /\ ~isArray(DocFractional))
                => \A i \in 0..(N - 1) :
                     /\ Len(mol.positions3d) >= K + i + 1
                     /\ mol.positions3d[K + i + 1] =
                          <<Doc3d.a[3 * i + 1], Doc3d.a[3 * i + 2], Doc3d.a[3 * i + 3]>>
           /\ (isArray(Doc2d) /\ size(Doc2d) = 2 * N)
                => \A i \in 0..(N - 1) :
                     /\ Len(mol.positions2d) >= K + i + 1
                     /\ mol.positions2d[K + i + 1] =
                          <<Doc2d.a[2 * i + 1], Doc2d.a[2 * i + 2]>>
           /\ \A i \in 1..Len(pre.mol.positions3d) :
                mol.positions3d[i] = pre.mol.positions3d[i]
           /\ \A i \in 1..Len(pre.mol.positions2d) :
                mol.positions2d[i] = pre.mol.positions2d[i]
           /\ bondCount(mol) = B + (IF isArray(DocIndex) THEN M ELSE 0)
           /\ (isArray(DocIndex) /\ isArray(DocOrder))
                => \A j \in 1..M : mol.bondOrders[B + j] = toUChar(DocOrder.a[j])
           /\ \A j \in 1..B : mol.bondOrders[j] = pre.mol.bondOrders[j]

====
